---- MODULE Spec2Model ----
(***************************************************************************)
(* Model of the notebook                                                   *)
(*   Tutorials/Boston Housing - XGBoost (Deploy) - High Level.ipynb        *)
(* The notebook is a linear script.  Each code cell is a handler that the  *)
(* kernel runs in order; a cell that raises stops the run.  Calls to the   *)
(* external platform (S3 upload, training job, endpoint deploy, predict,   *)
(* endpoint delete) block: each is modelled by a step that issues the call *)
(* and a step in which it returns or raises.                               *)
(***************************************************************************)
EXTENDS Integers, Sequences, FiniteSets, TLC

VARIABLES
    pc,             \* the next step of the run
    failed,         \* "none", or the step at which an exception stopped the run
    opLog,          \* the operations executed so far, in order
    outstanding,    \* the external calls issued and not yet returned
    dataset,        \* the table bundled with the library (the input)
    boston,         \* the loaded table
    X_train, Y_train, X_val, Y_val, X_test, Y_test,
    fs0,            \* the data directory as the run found it
    fs,             \* the data directory
    s3,             \* the bucket: object key -> lines
    val_location, train_location,
    xgb,            \* the estimator and its training job
    endpoint,       \* the hosted endpoint
    requests,       \* the payloads sent to the endpoint
    Y_pred,         \* the parsed predictions
    shellErrors     \* the shell commands of the clean-up cell that failed

vars == <<pc, failed, opLog, outstanding, dataset, boston,
          X_train, Y_train, X_val, Y_val, X_test, Y_test,
          fs0, fs, s3, val_location, train_location, xgb, endpoint,
          requests, Y_pred, shellErrors>>

----------------------------------------------------------------------------
(* Bounds of the model *)

MaxRows == 5
NumFeatures == 2

(* Program constants *)

TestSizePercent == 33
num_round == 200
early_stopping_rounds == 10

data_dir == "../data/boston"
prefix == "boston-xgboost-deploy-hl"

None == "None"
NoTable == [data |-> <<>>, target |-> <<>>]
NoFrame == [columns |-> <<>>, index |-> <<>>, values |-> <<>>]

----------------------------------------------------------------------------
(* The bundled table.  Row i (0-based, as the RangeIndex of pandas) has    *)
(* NumFeatures feature values and one target value.  Two shapes of table   *)
(* are considered: all rows different, and all rows with the same content. *)

feature_names == [j \in 1..NumFeatures |-> "F" \o ToString(j)]

Table(n, shape) ==
    [data   |-> [i \in 1..n |-> [j \in 1..NumFeatures |->
                    IF shape = "distinct" THEN 10 * i + j ELSE j]],
     target |-> [i \in 1..n |-> IF shape = "distinct" THEN 100 + i ELSE 100]]

Datasets == {Table(n, shape) : n \in 0..MaxRows, shape \in {"distinct", "equal"}}

----------------------------------------------------------------------------
(* pandas frames: column labels, index labels, and one value row per index *)

RangeIndex(n) == [i \in 1..n |-> i - 1]

\* pd.DataFrame(boston.data, columns=boston.feature_names)
DataFrameX(b) ==
    [columns |-> feature_names,
     index   |-> RangeIndex(Len(b.data)),
     values  |-> b.data]

\* pd.DataFrame(boston.target): one column, labelled 0
DataFrameY(b) ==
    [columns |-> <<"0">>,
     index   |-> RangeIndex(Len(b.target)),
     values  |-> [i \in 1..Len(b.target) |-> <<b.target[i]>>]]

NRows(f) == Len(f.index)

\* the rows of f at the given positions, in that order
TakeRows(f, positions) ==
    [columns |-> f.columns,
     index   |-> [k \in 1..Len(positions) |-> f.index[positions[k]]],
     values  |-> [k \in 1..Len(positions) |-> f.values[positions[k]]]]

\* mutant: a fixed random_state, every run shuffles the same way
PermsSeeded(S) == {[i \in 1..Cardinality(S) |-> i]}

RECURSIVE Perms(_)
Perms(S) ==
    IF S = {} THEN {<<>>}
    ELSE UNION {{<<x>> \o p : p \in Perms(S \ {x})} : x \in S}

\* mutant: test_size taken as the size of the train set
NTestSwapped(n, percent) == n - ((percent * n + 99) \div 100)

\* ceil(test_size * n) for test_size = percent / 100
NTest(n, percent) == (percent * n + 99) \div 100

\* n_train = n - n_test
NTrain(n, percent) == n - NTest(n, percent)

\* the split raises ValueError when the train set would be empty
SplitFails(n, percent) == n = 0 \/ NTrain(n, percent) = 0

\* mutant: the size of the test set depends on the shuffle
TrainTestSplitRandomSize(X, Y, percent, perm) ==
    LET n  == NRows(X)
        nt == IF n >= 3 /\ perm[1] = 1
              THEN NTest(n, percent) + 1 ELSE NTest(n, percent)
        test  == SubSeq(perm, 1, nt)
        train == SubSeq(perm, nt + 1, n)
    IN  [X_train |-> TakeRows(X, train), X_test |-> TakeRows(X, test),
         Y_train |-> TakeRows(Y, train), Y_test |-> TakeRows(Y, test)]

\* mutant: the train rows start one position early, at the last test row
TrainTestSplitOverlap(X, Y, percent, perm) ==
    LET n  == NRows(X)
        nt == NTest(n, percent)
        test  == SubSeq(perm, 1, nt)
        train == SubSeq(perm, nt, n)
    IN  [X_train |-> TakeRows(X, train), X_test |-> TakeRows(X, test),
         Y_train |-> TakeRows(Y, train), Y_test |-> TakeRows(Y, test)]

\* sklearn.model_selection.train_test_split(X, Y, test_size): the first
\* n_test positions of a random permutation are the test rows, the
\* following n_train the train rows; X and Y are indexed alike
TrainTestSplit(X, Y, percent, perm) ==
    LET n  == NRows(X)
        nt == NTest(n, percent)
        test  == SubSeq(perm, 1, nt)
        train == SubSeq(perm, nt + 1, n)
    IN  [X_train |-> TakeRows(X, train), X_test |-> TakeRows(X, test),
         Y_train |-> TakeRows(Y, train), Y_test |-> TakeRows(Y, test)]

----------------------------------------------------------------------------
(* The local data directory: whether it exists, and its entries by name.   *)
(* A run may find the directory absent, or present with entries that the   *)
(* notebook did not create: a regular file, a hidden file, a directory.    *)

ForeignNames == {"notes.txt", ".hidden", "old"}

ForeignEntry(name) ==
    [kind |-> IF name = "old" THEN "dir" ELSE "file", lines |-> <<<<"x">>>>]

InitialDirs ==
    {[exists |-> FALSE, entries |-> <<>>]} \cup
    {[exists |-> TRUE, entries |-> [x \in S |-> ForeignEntry(x)]] :
        S \in SUBSET ForeignNames}

\* mutant: the directory is made anew whether or not it exists
MakeDirsAnew(f) == [exists |-> TRUE, entries |-> <<>>]

\* if not os.path.exists(data_dir): os.makedirs(data_dir)
MakeDirsIfAbsent(f) ==
    IF ~f.exists THEN [exists |-> TRUE, entries |-> <<>>] ELSE f

\* mutant: os.makedirs is called whether or not the directory exists
DataDirOpsAlways(f) == <<"os.path.exists", "os.makedirs">>

\* the operations that cell executes
DataDirOps(f) ==
    IF ~f.exists THEN <<"os.path.exists", "os.makedirs">>
    ELSE <<"os.path.exists">>

\* mutant: the rows of B are joined one position off (index ignored)
ConcatMisaligned(A, B) ==
    [columns |-> A.columns \o B.columns,
     index   |-> A.index,
     values  |-> [k \in 1..NRows(A) |->
                    A.values[k] \o B.values[(k % NRows(B)) + 1]]]

\* pd.concat([A, B], axis=1): the columns of A followed by those of B,
\* rows joined on the index label
Concat(A, B) ==
    [columns |-> A.columns \o B.columns,
     index   |-> A.index,
     values  |-> [k \in 1..NRows(A) |->
                    A.values[k] \o
                    B.values[CHOOSE m \in 1..NRows(B) : B.index[m] = A.index[k]]]]

Fmt(row) == [j \in 1..Len(row) |-> ToString(row[j])]

\* DataFrame.to_csv(path, header, index): the lines of the file, each a
\* sequence of text fields
ToCsv(f, header, index) ==
    (IF header
       THEN <<(IF index THEN <<"">> ELSE <<>>) \o f.columns>>
       ELSE <<>>)
    \o [k \in 1..NRows(f) |->
          (IF index THEN <<ToString(f.index[k])>> ELSE <<>>) \o Fmt(f.values[k])]

\* mutant: to_csv with its default header=True
CsvLinesWithHeader(Y, X) == ToCsv(Concat(Y, X), TRUE, FALSE)

\* pd.concat([Y, X], axis=1).to_csv(path, header=False, index=False)
CsvLines(Y, X) == ToCsv(Concat(Y, X), FALSE, FALSE)

WriteFile(f, name, lines) ==
    [f EXCEPT !.entries = (name :> [kind |-> "file", lines |-> lines]) @@ @]

\* mutant: the object key does not hold the file name
UploadKeyPrefixOnly(name, key_prefix) == key_prefix \o "/" \o "data"

\* session.upload_data(os.path.join(data_dir, name), key_prefix=prefix):
\* the object key, which is also the location returned
UploadKey(name, key_prefix) == key_prefix \o "/" \o name

NoEstimator ==
    [hyperparameters |-> <<>>, job |-> "none", channels |-> <<>>,
     trained_on |-> <<>>, validated_on |-> <<>>,
     run |-> "none", last_round |-> -1, best_round |-> -1]

\* mutant: early_stopping_rounds is left out of set_hyperparameters, so
\* that no number of rounds without improvement stops the job
HyperparametersNoEarlyStopping ==
    [early_stopping_rounds |-> num_round, num_round |-> num_round]

\* xgb.set_hyperparameters(...): the two that bound the number of rounds
Hyperparameters ==
    [early_stopping_rounds |-> early_stopping_rounds, num_round |-> num_round]

\* validation-rmse of the recorded training job, rounds 0 to 44, in units
\* of 0.00001
RecordedRmse ==
    << 1959330, 1605270, 1324930, 1097660, 905969, 767586, 657312, 574104,
       508212, 452626, 420724, 390743, 369189, 357320, 346545, 339912,
       338880, 336599, 332060, 328720, 326596, 325449, 329456, 327076,
       327000, 325700, 326330, 324553, 322975, 322107, 321413, 319694,
       318657, 314981, 314523, 315050, 317746, 319858, 319497, 317869,
       318187, 317739, 318358, 317619, 318000 >>

\* The courses the validation metric of a job can take, round by round:
\* the recorded one (taken to go on improving had the job gone on after
\* its last logged round), one that never improves after round 0, and one
\* that improves at every tenth round only.
Runs == {"recorded", "flat", "tenth"}

Rmse(run, i) ==
    CASE run = "recorded"  -> IF i < Len(RecordedRmse) THEN RecordedRmse[i + 1]
                              ELSE 300000 - i
      [] run = "flat"      -> 1000
      [] run = "tenth"     -> 1000 - (i \div 10)

\* One round of the boosting loop of the training job, st holding the last
\* round run, the round of the best validation metric so far and whether
\* the job has stopped: the job stops once the metric has not improved for
\* early_stopping_rounds rounds.
Boost(hp, run, st, i) ==
    IF st.stopped THEN st
    ELSE LET b == IF st.best_round = -1
                     \/ Rmse(run, i) < Rmse(run, st.best_round)
                  THEN i ELSE st.best_round
         IN  [last_round |-> i, best_round |-> b,
              stopped |-> i - b >= hp.early_stopping_rounds]

\* rounds lo to hi - 1 of the loop, in order: the first half of the range
\* and then, from the state it leaves, the second half (halving keeps the
\* evaluation shallow)
RECURSIVE Rounds(_, _, _, _, _)
Rounds(hp, run, st, lo, hi) ==
    IF hi <= lo THEN st
    ELSE IF hi = lo + 1 THEN Boost(hp, run, st, lo)
    ELSE LET mid == (lo + hi) \div 2
         IN  CHOOSE r \in {Rounds(hp, run, s, mid, hi) :
                               s \in {Rounds(hp, run, st, lo, mid)}} : TRUE

\* the training job: at most num_round rounds, from round 0
TrainingJob(hp, run) ==
    Rounds(hp, run, [last_round |-> -1, best_round |-> -1, stopped |-> FALSE],
           0, hp.num_round)

\* csv_serializer(X_test.values): one line of text fields per row
CsvSerializer(f) == [k \in 1..NRows(f) |-> Fmt(f.values[k])]

RECURSIVE JoinComma(_)
JoinComma(fields) ==
    IF Len(fields) = 0 THEN <<>>
    ELSE IF Len(fields) = 1 THEN fields
    ELSE <<fields[1], ",">> \o JoinComma(Tail(fields))

\* the endpoint's answer to a payload: one prediction per line, as a
\* comma delimited text (a sequence of tokens)
Predicted(line) == "9" \o line[1]
Response(payload) ==
    JoinComma([k \in 1..Len(payload) |-> Predicted(payload[k])])

\* mutant: parsing stops at the first separator
FromStringFirst(text, sep) == IF Len(text) = 0 THEN <<>> ELSE <<text[1]>>

\* np.fromstring(text, sep=','): the fields between the separators
RECURSIVE FromString(_, _)
FromString(text, sep) ==
    IF Len(text) = 0 THEN <<>>
    ELSE IF text[1] = sep THEN FromString(Tail(text), sep)
    ELSE <<text[1]>> \o FromString(Tail(text), sep)

\* !rm $data_dir/*: the glob matches the entries that are not hidden; rm
\* removes the files among them and fails on a directory, and fails when
\* the glob matches nothing
Hidden(name) == name \in {".hidden"}
GlobStar(f) == {x \in DOMAIN f.entries : ~Hidden(x)}
RmFails(f) ==
    \/ ~f.exists
    \/ GlobStar(f) = {}
    \/ \E x \in GlobStar(f) : f.entries[x].kind = "dir"
RmStar(f) ==
    IF ~f.exists THEN f
    ELSE [f EXCEPT !.entries =
            [x \in {y \in DOMAIN f.entries :
                        ~(y \in GlobStar(f) /\ f.entries[y].kind = "file")}
                |-> f.entries[x]]]

\* !rmdir $data_dir: removes the directory when it is empty
RmdirFails(f) == ~f.exists \/ DOMAIN f.entries # {}
Rmdir(f) == IF RmdirFails(f) THEN f ELSE [exists |-> FALSE, entries |-> <<>>]

----------------------------------------------------------------------------
Halt(step) ==
    /\ failed' = step
    /\ pc' = "halted"

Log(op) == opLog' = Append(opLog, op)

\* The inputs of a run: the bundled table and the data directory it finds.
\* The two are independent; directories holding foreign entries are
\* combined with the tables of at most three rows only.
Inputs ==
    {in \in Datasets \X InitialDirs :
        Len(in[1].data) <= 3 \/ DOMAIN in[2].entries = {}}

Init ==
    /\ pc = "load"
    /\ failed = "none"
    /\ opLog = <<>>
    /\ outstanding = {}
    /\ \E in \in Inputs : dataset = in[1] /\ fs0 = in[2]
    /\ boston = NoTable
    /\ X_train = NoFrame /\ Y_train = NoFrame
    /\ X_val = NoFrame /\ Y_val = NoFrame
    /\ X_test = NoFrame /\ Y_test = NoFrame
    /\ fs = fs0
    /\ s3 = <<>>
    /\ val_location = None /\ train_location = None
    /\ xgb = NoEstimator
    /\ endpoint = "none"
    /\ requests = <<>>
    /\ Y_pred = <<>>
    /\ shellErrors = {}

frames == <<X_train, Y_train, X_val, Y_val, X_test, Y_test>>
cloud == <<s3, val_location, train_location, xgb, endpoint, requests>>

\* boston = load_boston()
LoadData ==
    /\ pc = "load"
    /\ boston' = dataset
    /\ Log("load_boston")
    /\ pc' = "split"
    /\ UNCHANGED <<failed, outstanding, dataset, frames, fs0, fs, cloud,
                   Y_pred, shellErrors>>

\* the cell of the two train_test_split calls; either call may raise
SplitData ==
    /\ pc = "split"
    /\ LET X_bos_pd == DataFrameX(boston)
           Y_bos_pd == DataFrameY(boston)
           n == NRows(X_bos_pd)
       IN  IF SplitFails(n, TestSizePercent)
           THEN /\ Halt("split")
                /\ Log("train_test_split")
                /\ UNCHANGED frames
           ELSE \E p1 \in Perms(1..n) :
                LET s1 == TrainTestSplit(X_bos_pd, Y_bos_pd, TestSizePercent, p1)
                    m  == NRows(s1.X_train)
                IN  /\ X_test' = s1.X_test
                    /\ Y_test' = s1.Y_test
                    /\ opLog' = opLog \o <<"train_test_split", "train_test_split">>
                    /\ IF SplitFails(m, TestSizePercent)
                       THEN /\ Halt("split")
                            /\ X_train' = s1.X_train
                            /\ Y_train' = s1.Y_train
                            /\ UNCHANGED <<X_val, Y_val>>
                       ELSE \E p2 \in Perms(1..m) :
                            LET s2 == TrainTestSplit(s1.X_train, s1.Y_train,
                                                     TestSizePercent, p2)
                            IN  /\ X_train' = s2.X_train
                                /\ Y_train' = s2.Y_train
                                /\ X_val' = s2.X_test
                                /\ Y_val' = s2.Y_test
                                /\ pc' = "mkdir"
                                /\ UNCHANGED failed
    /\ UNCHANGED <<outstanding, dataset, boston, fs0, fs, cloud, Y_pred,
                   shellErrors>>

\* the cell that makes sure the local data directory exists
MakeDataDir ==
    /\ pc = "mkdir"
    /\ fs' = MakeDirsIfAbsent(fs)
    /\ opLog' = opLog \o DataDirOps(fs)
    /\ pc' = "to_csv"
    /\ UNCHANGED <<failed, outstanding, dataset, boston, frames, fs0, cloud,
                   Y_pred, shellErrors>>

\* the cell that writes validation.csv and then train.csv
WriteCsv ==
    /\ pc = "to_csv"
    /\ fs' = WriteFile(WriteFile(fs, "validation.csv", CsvLines(Y_val, X_val)),
                       "train.csv", CsvLines(Y_train, X_train))
    /\ opLog' = opLog \o <<"to_csv:validation.csv", "to_csv:train.csv">>
    /\ pc' = "upload_val"
    /\ UNCHANGED <<failed, outstanding, dataset, boston, frames, fs0, cloud,
                   Y_pred, shellErrors>>

\* an external call is issued: the script blocks until it returns
Issue(op) ==
    /\ outstanding' = outstanding \cup {op}
    /\ Log(op)

Return(op) == outstanding' = outstanding \ {op}

\* mutant: fit(wait=False), the script goes on while the job runs
FitCallNoWait ==
    /\ pc = "fit"
    /\ Issue("fit")
    /\ xgb' = [xgb EXCEPT !.job = "InProgress",
                          !.channels = [train |-> train_location,
                                        validation |-> val_location]]
    /\ pc' = "deploy"
    /\ UNCHANGED <<failed, dataset, boston, frames, fs0, fs, s3, val_location,
                   train_location, endpoint, requests, Y_pred, shellErrors>>

\* mutant: a failed upload of train.csv is tried again
UploadTrainReturnRetry ==
    /\ pc = "upload_train_wait"
    /\ Return("upload:train.csv")
    /\ \/ /\ s3' = (UploadKey("train.csv", prefix)
                        :> fs.entries["train.csv"].lines) @@ s3
          /\ train_location' = UploadKey("train.csv", prefix)
          /\ pc' = "estimator"
       \/ /\ pc' = "upload_train"
          /\ UNCHANGED <<s3, train_location>>
    /\ UNCHANGED <<failed, opLog, dataset, boston, frames, fs0, fs,
                   val_location, xgb, endpoint, requests, Y_pred, shellErrors>>

\* mutant: deploy(wait=False), it returns while the endpoint is created
DeployReturnEarly ==
    /\ pc = "deploy_wait"
    /\ Return("deploy")
    /\ pc' = "predict"
    /\ UNCHANGED <<failed, opLog, dataset, boston, frames, fs0, fs, cloud,
                   Y_pred, shellErrors>>

\* mutant: the predict cell in try/finally, deleting the endpoint on error
OnPredictErrorCleanup(step) ==
    /\ Halt(step)
    /\ opLog' = IF step = "decode" THEN Append(opLog, "decode") ELSE opLog
    /\ endpoint' = "Deleted"
    /\ UNCHANGED Y_pred

\* mutant: delete_endpoint returns without having deleted the endpoint
DeleteReturnNoEffect ==
    /\ pc = "delete_wait"
    /\ Return("delete_endpoint")
    /\ pc' = "finished"
    /\ UNCHANGED <<failed, opLog, dataset, boston, frames, fs0, fs, cloud,
                   Y_pred, shellErrors>>

\* val_location = session.upload_data(.../validation.csv, key_prefix=prefix)
UploadValCall ==
    /\ pc = "upload_val"
    /\ Issue("upload:validation.csv")
    /\ pc' = "upload_val_wait"
    /\ UNCHANGED <<failed, dataset, boston, frames, fs0, fs, cloud, Y_pred,
                   shellErrors>>

UploadValReturn ==
    /\ pc = "upload_val_wait"
    /\ Return("upload:validation.csv")
    /\ \/ /\ s3' = (UploadKey("validation.csv", prefix)
                        :> fs.entries["validation.csv"].lines) @@ s3
          /\ val_location' = UploadKey("validation.csv", prefix)
          /\ pc' = "upload_train"
          /\ UNCHANGED failed
       \/ /\ Halt("upload:validation.csv")
          /\ UNCHANGED <<s3, val_location>>
    /\ UNCHANGED <<opLog, dataset, boston, frames, fs0, fs, train_location, xgb,
                   endpoint, requests, Y_pred, shellErrors>>

\* train_location = session.upload_data(.../train.csv, key_prefix=prefix)
UploadTrainCall ==
    /\ pc = "upload_train"
    /\ Issue("upload:train.csv")
    /\ pc' = "upload_train_wait"
    /\ UNCHANGED <<failed, dataset, boston, frames, fs0, fs, cloud, Y_pred,
                   shellErrors>>

UploadTrainReturn ==
    /\ pc = "upload_train_wait"
    /\ Return("upload:train.csv")
    /\ \/ /\ s3' = (UploadKey("train.csv", prefix)
                        :> fs.entries["train.csv"].lines) @@ s3
          /\ train_location' = UploadKey("train.csv", prefix)
          /\ pc' = "estimator"
          /\ UNCHANGED failed
       \/ /\ Halt("upload:train.csv")
          /\ UNCHANGED <<s3, train_location>>
    /\ UNCHANGED <<opLog, dataset, boston, frames, fs0, fs, val_location, xgb,
                   endpoint, requests, Y_pred, shellErrors>>

\* the cells that construct the estimator and set its hyperparameters
ConfigureEstimator ==
    /\ pc = "estimator"
    /\ xgb' = [NoEstimator EXCEPT !.hyperparameters = Hyperparameters]
    /\ opLog' = opLog \o <<"Estimator", "set_hyperparameters">>
    /\ pc' = "fit"
    /\ UNCHANGED <<failed, outstanding, dataset, boston, frames, fs0, fs, s3,
                   val_location, train_location, endpoint, requests, Y_pred,
                   shellErrors>>

\* the channels given to fit
FitChannels == [train |-> train_location, validation |-> val_location]

\* xgb.fit({'train': s3_input_train, 'validation': s3_input_validation})
FitCall ==
    /\ pc = "fit"
    /\ Issue("fit")
    /\ xgb' = [xgb EXCEPT !.job = "InProgress", !.channels = FitChannels]
    /\ pc' = "fit_wait"
    /\ UNCHANGED <<failed, dataset, boston, frames, fs0, fs, s3, val_location,
                   train_location, endpoint, requests, Y_pred, shellErrors>>

FitReturn ==
    /\ pc = "fit_wait"
    /\ Return("fit")
    /\ \/ /\ \E run \in Runs :
                LET job == TrainingJob(xgb.hyperparameters, run)
                IN  xgb' = [xgb EXCEPT !.job = "Completed",
                                       !.trained_on = s3[xgb.channels.train],
                                       !.validated_on = s3[xgb.channels.validation],
                                       !.run = run,
                                       !.last_round = job.last_round,
                                       !.best_round = job.best_round]
          /\ pc' = "deploy"
          /\ UNCHANGED failed
       \/ /\ xgb' = [xgb EXCEPT !.job = "Failed"]
          /\ Halt("fit")
    /\ UNCHANGED <<opLog, dataset, boston, frames, fs0, fs, s3, val_location,
                   train_location, endpoint, requests, Y_pred, shellErrors>>

\* xgb_predictor = xgb.deploy(initial_instance_count=1, instance_type=...)
DeployCall ==
    /\ pc = "deploy"
    /\ Issue("deploy")
    /\ endpoint' = "Creating"
    /\ pc' = "deploy_wait"
    /\ UNCHANGED <<failed, dataset, boston, frames, fs0, fs, s3, val_location,
                   train_location, xgb, requests, Y_pred, shellErrors>>

DeployReturn ==
    /\ pc = "deploy_wait"
    /\ Return("deploy")
    /\ \/ /\ endpoint' = "InService"
          /\ pc' = "predict"
          /\ UNCHANGED failed
       \/ /\ endpoint' = "Failed"
          /\ Halt("deploy")
    /\ UNCHANGED <<opLog, dataset, boston, frames, fs0, fs, s3, val_location,
                   train_location, xgb, requests, Y_pred, shellErrors>>

\* mutant: only the first chunk (one row) of the test partition is sent
PredictPayloadFirstChunk == SubSeq(CsvSerializer(X_test), 1, 1)

\* mutant: the test rows are sent with their target value in front
PredictPayloadWithTarget == CsvSerializer(Concat(Y_test, X_test))

\* what the predict call sends: the whole of X_test.values, serialized
PredictPayload == CsvSerializer(X_test)

\* xgb_predictor.predict(X_test.values)
PredictCall ==
    /\ pc = "predict"
    /\ Issue("predict")
    /\ requests' = Append(requests, PredictPayload)
    /\ pc' = "predict_wait"
    /\ UNCHANGED <<failed, dataset, boston, frames, fs0, fs, s3, val_location,
                   train_location, xgb, endpoint, Y_pred, shellErrors>>

\* what the cell does when predict has raised, or its answer cannot be
\* decoded: nothing, the exception ends the run
OnPredictError(step) ==
    /\ Halt(step)
    /\ opLog' = IF step = "decode" THEN Append(opLog, "decode") ELSE opLog
    /\ UNCHANGED <<Y_pred, endpoint>>

\* the answer arrives; .decode('utf-8') and np.fromstring(Y_pred, sep=',')
PredictReturn ==
    /\ pc = "predict_wait"
    /\ Return("predict")
    /\ \/ /\ Y_pred' = FromString(Response(requests[Len(requests)]), ",")
          /\ opLog' = opLog \o <<"decode", "np.fromstring">>
          /\ pc' = "plot"
          /\ UNCHANGED <<failed, endpoint>>
       \/ OnPredictError("predict")
       \/ OnPredictError("decode")
    /\ UNCHANGED <<dataset, boston, frames, fs0, fs, s3, val_location,
                   train_location, xgb, requests, shellErrors>>

\* plt.scatter(Y_test, Y_pred): raises when the two sizes differ
Plot ==
    /\ pc = "plot"
    /\ Log("plt.scatter")
    /\ IF Len(Y_pred) = NRows(Y_test)
       THEN pc' = "delete" /\ UNCHANGED failed
       ELSE Halt("plot")
    /\ UNCHANGED <<outstanding, dataset, boston, frames, fs0, fs, cloud, Y_pred,
                   shellErrors>>

\* xgb_predictor.delete_endpoint()
DeleteCall ==
    /\ pc = "delete"
    /\ Issue("delete_endpoint")
    /\ pc' = "delete_wait"
    /\ UNCHANGED <<failed, dataset, boston, frames, fs0, fs, cloud, Y_pred,
                   shellErrors>>

DeleteReturn ==
    /\ pc = "delete_wait"
    /\ Return("delete_endpoint")
    /\ \/ /\ endpoint' = "Deleted"
          /\ pc' = "finished"
          /\ UNCHANGED failed
       \/ /\ Halt("delete_endpoint")
          /\ UNCHANGED endpoint
    /\ UNCHANGED <<opLog, dataset, boston, frames, fs0, fs, s3, val_location,
                   train_location, xgb, requests, Y_pred, shellErrors>>

\* the optional clean-up cell: two shell commands; a failing shell command
\* raises nothing, so the second runs whatever the first did
CleanUp ==
    /\ pc = "finished"
    /\ fs' = Rmdir(RmStar(fs))
    /\ shellErrors' = (IF RmFails(fs) THEN {"rm"} ELSE {}) \cup
                      (IF RmdirFails(RmStar(fs)) THEN {"rmdir"} ELSE {})
    /\ opLog' = opLog \o <<"!rm", "!rmdir">>
    /\ pc' = "cleaned"
    /\ UNCHANGED <<failed, outstanding, dataset, boston, frames, fs0, cloud,
                   Y_pred>>

Next ==
    \/ LoadData
    \/ SplitData
    \/ MakeDataDir
    \/ WriteCsv
    \/ UploadValCall
    \/ UploadValReturn
    \/ UploadTrainCall
    \/ UploadTrainReturn
    \/ ConfigureEstimator
    \/ FitCall
    \/ FitReturn
    \/ DeployCall
    \/ DeployReturn
    \/ PredictCall
    \/ PredictReturn
    \/ Plot
    \/ DeleteCall
    \/ DeleteReturn
    \/ CleanUp

\* the steps of the script proper; the clean-up cell is optional
Run ==
    \/ LoadData \/ SplitData \/ MakeDataDir \/ WriteCsv
    \/ UploadValCall \/ UploadValReturn \/ UploadTrainCall \/ UploadTrainReturn
    \/ ConfigureEstimator \/ FitCall \/ FitReturn \/ DeployCall \/ DeployReturn
    \/ PredictCall \/ PredictReturn \/ Plot \/ DeleteCall \/ DeleteReturn

Spec == Init /\ [][Next]_vars

\* the runs on tables of at most four different rows that find the data
\* directory absent or empty
LiveInit ==
    /\ Init
    /\ dataset \in {Table(n, "distinct") : n \in 0..4}
    /\ DOMAIN fs0.entries = {}

\* the kernel runs each cell in turn and every blocking call returns
FairSpec == LiveInit /\ [][Next]_vars /\ WF_vars(Run)

----------------------------------------------------------------------------
(* Vocabulary of the properties *)

IndexSet(f) == {f.index[k] : k \in 1..NRows(f)}
Executed(op) == \E i \in 1..Len(opLog) : opLog[i] = op
Count(op) == Cardinality({i \in 1..Len(opLog) : opLog[i] = op})
Pos(op) == IF Executed(op)
           THEN CHOOSE i \in 1..Len(opLog) :
                    opLog[i] = op /\ \A j \in 1..(i - 1) : opLog[j] # op
           ELSE 0
IsPrefix(a, b) == Len(a) <= Len(b) /\ SubSeq(b, 1, Len(a)) = a
Without(log, op) == SelectSeq(log, LAMBDA x : x # op)

\* both train_test_split calls have returned
SplitDone == pc \notin {"load", "split"} /\ failed # "split"
\* the two files are written and the clean-up cell has not run
CsvWritten == Executed("to_csv:train.csv") /\ pc # "cleaned"
\* the predict cell has completed
PredictDone == Executed("np.fromstring")

ExternalOps == {"upload:validation.csv", "upload:train.csv", "fit", "deploy",
                "predict", "delete_endpoint"}

----------------------------------------------------------------------------
\* C1: once both splits have succeeded, the train, validation and test
\* partitions are pairwise disjoint sets of input rows, every input row is
\* in exactly one of them, and their sizes sum to the input row count.
C1_Partition ==
    SplitDone =>
        LET tr == IndexSet(X_train)
            va == IndexSet(X_val)
            te == IndexSet(X_test)
            n  == Len(boston.data)
        IN  /\ tr \cap va = {} /\ tr \cap te = {} /\ va \cap te = {}
            /\ tr \cup va \cup te = IndexSet(DataFrameX(boston))
            /\ Cardinality(tr) = NRows(X_train)
            /\ Cardinality(va) = NRows(X_val)
            /\ Cardinality(te) = NRows(X_test)
            /\ NRows(X_train) + NRows(X_val) + NRows(X_test) = n
            /\ IndexSet(Y_train) = tr /\ IndexSet(Y_val) = va
            /\ IndexSet(Y_test) = te

C1_Witness ==
    /\ pc = "mkdir"
    /\ Len(boston.data) = MaxRows
    /\ NRows(X_train) >= 1 /\ NRows(X_val) >= 1 /\ NRows(X_test) >= 1

\* the file holds the rows of (Y, X): target first, no header, no index
FileIsHeaderlessTargetFirst(name, Y, X) ==
    /\ name \in DOMAIN fs.entries
    /\ LET lines == fs.entries[name].lines
       IN  /\ Len(lines) = NRows(X)
           /\ \A k \in 1..Len(lines) :
                /\ Len(lines[k]) = 1 + NumFeatures
                /\ lines[k] # Y.columns \o X.columns
                /\ lines[k][1] = ToString(Y.values[k][1])
                /\ \A j \in 1..NumFeatures :
                       lines[k][1 + j] = ToString(X.values[k][j])

\* C2: while the written files exist, train.csv and validation.csv hold one
\* line per row of their partition, no header line, no index field, and
\* each line is the target value followed by the feature values.
C2_CsvFormat ==
    CsvWritten =>
        /\ FileIsHeaderlessTargetFirst("train.csv", Y_train, X_train)
        /\ FileIsHeaderlessTargetFirst("validation.csv", Y_val, X_val)

C2_Witness ==
    /\ pc = "upload_val"
    /\ Len(fs.entries["train.csv"].lines) >= 2
    /\ Len(fs.entries["validation.csv"].lines) >= 1

\* C3: once the predict cell has completed, Y_pred has as many elements as
\* the test partition has rows.
C3_PredLength == PredictDone => Len(Y_pred) = NRows(X_test)

C3_Witness == pc = "plot" /\ Len(Y_pred) >= 2 /\ NRows(X_test) = Len(Y_pred)

\* k is within one row of test_size * n
WithinOneRow(k, n) ==
    /\ 100 * k - TestSizePercent * n <= 100
    /\ TestSizePercent * n - 100 * k <= 100

\* C4: the test partition is within one row of 0.33 times the input row
\* count, the validation partition within one row of 0.33 times the rows
\* left after the first split, and the train partition is the rest.
C4_Proportions ==
    SplitDone =>
        LET n == Len(boston.data)
        IN  /\ WithinOneRow(NRows(X_test), n)
            /\ WithinOneRow(NRows(X_val), n - NRows(X_test))
            /\ NRows(X_train) = n - NRows(X_test) - NRows(X_val)

C4_Witness ==
    /\ pc = "mkdir"
    /\ Len(boston.data) = MaxRows
    /\ NRows(X_test) * 100 # TestSizePercent * MaxRows

\* C5: the stages happen in the fixed order: both files are written before
\* either upload, both uploads have completed before fit is called, the
\* training job has completed before deploy is called, the endpoint is in
\* service when the predict request is sent, delete_endpoint is called only
\* after the answer has been received and parsed, and no request follows it.
C5_Order ==
    /\ \A u \in {"upload:validation.csv", "upload:train.csv"} :
         Executed(u) =>
            /\ 0 < Pos("to_csv:validation.csv")
            /\ Pos("to_csv:validation.csv") < Pos(u)
            /\ 0 < Pos("to_csv:train.csv")
            /\ Pos("to_csv:train.csv") < Pos(u)
    /\ Executed("fit") =>
         /\ val_location = UploadKey("validation.csv", prefix)
         /\ train_location = UploadKey("train.csv", prefix)
         /\ {val_location, train_location} \subseteq DOMAIN s3
         /\ outstanding \cap {"upload:validation.csv", "upload:train.csv"} = {}
    /\ Executed("deploy") => xgb.job = "Completed" /\ "fit" \notin outstanding
    /\ Executed("predict") =>
         /\ endpoint \in {"InService", "Deleted"}
         /\ "deploy" \notin outstanding
         /\ "predict" \in outstanding => endpoint = "InService"
    /\ Executed("delete_endpoint") =>
         /\ PredictDone
         /\ Pos("np.fromstring") < Pos("delete_endpoint")
         /\ "predict" \notin outstanding
    /\ Len(requests) = Count("predict")
    /\ \A i, j \in 1..Len(opLog) :
         opLog[i] = "delete_endpoint" /\ opLog[j] = "predict" => j < i

C5_Witness ==
    /\ pc = "finished"
    /\ endpoint = "Deleted"
    /\ Len(requests) = 1
    /\ Pos("predict") < Pos("delete_endpoint")

\* the failures of calls to the platform once the endpoint is in service
ExternalFailures == {"predict", "decode", "delete_endpoint"}

\* C6: when no call to the platform fails, an endpoint that deploy has put
\* in service is eventually deleted, and none exists when the script ends.
C6_EndpointDeleted ==
    /\ [](pc \in {"finished", "cleaned"} => endpoint = "Deleted")
    /\ (endpoint = "InService") ~>
            (endpoint = "Deleted" \/ failed \in ExternalFailures)

C6_Witness == pc = "finished" /\ endpoint = "Deleted" /\ failed = "none"

\* the operation that raised, for each failure
FailedOp(step) ==
    IF step = "split" THEN "train_test_split"
    ELSE IF step = "plot" THEN "plt.scatter"
    ELSE step

\* C7: nothing is caught: a failing stage ends the run there, no later
\* stage is executed, what earlier stages did stays (files, objects,
\* training job, endpoint); in particular the endpoint stays in service
\* when predict or the decoding of its answer fails.
C7_NoRecovery ==
    failed # "none" =>
        /\ pc = "halted"
        /\ ~ENABLED Next
        /\ outstanding = {}
        /\ opLog[Len(opLog)] = FailedOp(failed)
        /\ Executed("to_csv:train.csv") =>
              /\ FileIsHeaderlessTargetFirst("train.csv", Y_train, X_train)
              /\ FileIsHeaderlessTargetFirst("validation.csv", Y_val, X_val)
        /\ Executed("upload:train.csv") /\ failed # "upload:train.csv" =>
              /\ val_location \in DOMAIN s3
              /\ train_location \in DOMAIN s3
              /\ s3[train_location] = fs.entries["train.csv"].lines
              /\ s3[val_location] = fs.entries["validation.csv"].lines
        /\ Executed("deploy") => xgb.job = "Completed"
        /\ failed \in {"predict", "decode", "plot", "delete_endpoint"} =>
              endpoint = "InService"

C7_Witness ==
    /\ failed = "decode"
    /\ endpoint = "InService"
    /\ train_location \in DOMAIN s3

\* C8: at most one call to the platform is outstanding, it is the last
\* operation the script has started, and the training job or the endpoint
\* is in progress only while the script waits in fit or deploy.
C8_Sequential ==
    /\ Cardinality(outstanding) <= 1
    /\ outstanding # {} =>
         /\ Len(opLog) > 0
         /\ opLog[Len(opLog)] \in outstanding
         /\ failed = "none"
    /\ xgb.job = "InProgress" => outstanding = {"fit"}
    /\ endpoint = "Creating" => outstanding = {"deploy"}

C8_Witness == outstanding = {"deploy"} /\ xgb.job = "Completed"

\* C9: each operation on the platform is issued at most once in a run,
\* also when it fails.
C9_NoRetry == \A op \in ExternalOps : Count(op) <= 1

C9_Witness ==
    /\ failed = "upload:train.csv"
    /\ Count("upload:train.csv") = 1
    /\ Count("upload:validation.csv") = 1

\* the operations of a complete run, in order, with or without os.makedirs
FullOps(withMakedirs) ==
    <<"load_boston", "train_test_split", "train_test_split", "os.path.exists">>
    \o (IF withMakedirs THEN <<"os.makedirs">> ELSE <<>>)
    \o <<"to_csv:validation.csv", "to_csv:train.csv",
         "upload:validation.csv", "upload:train.csv",
         "Estimator", "set_hyperparameters", "fit", "deploy", "predict",
         "decode", "np.fromstring", "plt.scatter", "delete_endpoint",
         "!rm", "!rmdir">>

\* C10 as stated: every run executes the same sequence of operations
\* whether or not the data directory exists, that is the sequence of a run
\* that finds no data directory (a run that stops early executes a prefix).
C10_SameSequence == IsPrefix(opLog, FullOps(TRUE))

\* C10 amended: the script has one branch: os.makedirs is executed exactly
\* when the data directory does not exist; but for that operation every
\* run executes the same sequence (a run that stops early a prefix of it).
C10_OneBranch ==
    /\ IsPrefix(opLog, FullOps(~fs0.exists))
    /\ IsPrefix(Without(opLog, "os.makedirs"), FullOps(FALSE))
    /\ Executed("os.path.exists") => (Executed("os.makedirs") <=> ~fs0.exists)

C10_Witness ==
    /\ fs0.exists
    /\ pc = "finished"
    /\ ~Executed("os.makedirs")
    /\ opLog = SubSeq(FullOps(FALSE), 1, Len(opLog))

\* C11: a run makes at most one inference request; the request it makes
\* carries every row of the test partition, in order, and Y_pred is the
\* parse of the answer to that one request (nothing is accumulated).
C11_SingleCall ==
    /\ Len(requests) <= 1
    /\ Count("predict") = Len(requests)
    /\ Executed("predict") =>
         /\ Len(requests) = 1
         /\ Len(requests[1]) = NRows(X_test)
         /\ \A k \in 1..NRows(X_test) :
                requests[1][k] = Fmt(X_test.values[k])
    /\ PredictDone => Y_pred = FromString(Response(requests[1]), ",")

C11_Witness ==
    /\ pc = "plot"
    /\ Len(requests) = 1
    /\ Len(requests[1]) >= 2
    /\ Len(Y_pred) = Len(requests[1])

\* the entries of the data directory that the notebook did not create
Foreign == DOMAIN fs0.entries

SampleLine(i) == Fmt(<<boston.target[i + 1]>> \o boston.data[i + 1])

\* X and Y hold, position by position, the same sample of the input
Aligned(X, Y) ==
    /\ X.index = Y.index
    /\ \A k \in 1..NRows(X) :
          /\ X.values[k] = boston.data[X.index[k] + 1]
          /\ Y.values[k] = <<boston.target[X.index[k] + 1]>>

\* C13: the three partitions keep each sample's features and target
\* together, and every line of train.csv and validation.csv is the target
\* of one input sample followed by the features of that same sample.
C13_RowAlignment ==
    /\ SplitDone =>
         /\ Aligned(X_train, Y_train)
         /\ Aligned(X_val, Y_val)
         /\ Aligned(X_test, Y_test)
    /\ CsvWritten =>
         /\ \A k \in 1..NRows(X_train) :
               fs.entries["train.csv"].lines[k] = SampleLine(X_train.index[k])
         /\ \A k \in 1..NRows(X_val) :
               fs.entries["validation.csv"].lines[k] = SampleLine(X_val.index[k])

\* a table of different rows, two of them in train.csv
C13_Witness ==
    /\ pc = "upload_val"
    /\ Len(fs.entries["train.csv"].lines) >= 2
    /\ fs.entries["train.csv"].lines[1] # fs.entries["train.csv"].lines[2]
    /\ NRows(X_test) >= 2

\* the elements of a sequence
Range(q) == {q[k] : k \in 1..Len(q)}

\* the rows of the loaded table differ from one another
RowsDistinct ==
    \A i, j \in 1..Len(boston.data) :
        i # j => boston.data[i] # boston.data[j]
                    /\ boston.target[i] # boston.target[j]

\* C14: the notebook writes and uploads train.csv and validation.csv only;
\* the data of the training job are the rows of the train and validation
\* partitions, none of them a test row; the request to the endpoint holds
\* the features of the test rows and no target value.
C14_TestHeldOut ==
    /\ fs.exists =>
         (DOMAIN fs.entries) \ Foreign \subseteq {"train.csv", "validation.csv"}
    /\ DOMAIN s3 \subseteq {UploadKey("train.csv", prefix),
                           UploadKey("validation.csv", prefix)}
    /\ \A key \in DOMAIN s3 :
         s3[key] \in {CsvLines(Y_train, X_train), CsvLines(Y_val, X_val)}
    /\ xgb.job = "Completed" =>
         /\ Len(xgb.trained_on) = NRows(X_train)
         /\ Len(xgb.validated_on) = NRows(X_val)
         /\ \A k \in 1..NRows(X_train) :
               /\ xgb.trained_on[k] = SampleLine(X_train.index[k])
               /\ X_train.index[k] \notin IndexSet(X_test)
         /\ \A k \in 1..NRows(X_val) :
               /\ xgb.validated_on[k] = SampleLine(X_val.index[k])
               /\ X_val.index[k] \notin IndexSet(X_test)
         /\ RowsDistinct =>
               \A i \in IndexSet(X_test) :
                   SampleLine(i) \notin
                       Range(xgb.trained_on) \cup Range(xgb.validated_on)
    /\ \A r \in 1..Len(requests) :
         /\ Len(requests[r]) = NRows(X_test)
         /\ \A k \in 1..Len(requests[r]) :
               /\ Len(requests[r][k]) = NumFeatures
               /\ requests[r][k] = Fmt(boston.data[X_test.index[k] + 1])
               /\ RowsDistinct =>
                     ToString(boston.target[X_test.index[k] + 1])
                         \notin Range(requests[r][k])

C14_Witness ==
    /\ pc = "predict_wait"
    /\ RowsDistinct
    /\ Len(requests) = 1
    /\ Len(requests[1]) >= 2
    /\ xgb.job = "Completed"
    /\ Len(xgb.trained_on) >= 2

\* C15: the two uploads land at two different keys under the key prefix,
\* the object of the first upload is still the content of validation.csv
\* after the second, and the training job's train channel is the uploaded
\* train.csv and its validation channel the uploaded validation.csv.
C15_UploadsAndChannels ==
    /\ val_location # None =>
         /\ val_location = prefix \o "/" \o "validation.csv"
         /\ val_location \in DOMAIN s3
         /\ s3[val_location] = CsvLines(Y_val, X_val)
    /\ train_location # None =>
         /\ train_location = prefix \o "/" \o "train.csv"
         /\ train_location \in DOMAIN s3
         /\ s3[train_location] = CsvLines(Y_train, X_train)
         /\ val_location # None
         /\ train_location # val_location
         /\ Cardinality(DOMAIN s3) = 2
    /\ Executed("fit") =>
         /\ xgb.channels.train = train_location
         /\ xgb.channels.validation = val_location
         /\ xgb.channels.train # xgb.channels.validation
    /\ xgb.job = "Completed" =>
         /\ xgb.trained_on = CsvLines(Y_train, X_train)
         /\ xgb.validated_on = CsvLines(Y_val, X_val)

\* train.csv and validation.csv differ and the job has read both
C15_Witness ==
    /\ pc = "deploy"
    /\ xgb.job = "Completed"
    /\ s3[train_location] # s3[val_location]
    /\ xgb.trained_on # xgb.validated_on

\* the sizes <<train, validation, test>> as a function of the row count
\* alone: ceil(0.33 n) test rows, then ceil(0.33 m) validation rows of the
\* m rows that are left
SizesOf(n) ==
    LET t == CHOOSE k \in 0..n :
                100 * k >= TestSizePercent * n
                /\ 100 * (k - 1) < TestSizePercent * n
        m == n - t
        v == CHOOSE k \in 0..m :
                100 * k >= TestSizePercent * m
                /\ 100 * (k - 1) < TestSizePercent * m
    IN  <<m - v, v, t>>

\* the partitions in which the shuffles of the two train_test_split calls
\* can put the first input row (index label 0)
CanLandIn ==
    LET X == DataFrameX(boston)
        Y == DataFrameY(boston)
        First(p) == TrainTestSplit(X, Y, TestSizePercent, p)
        Second(r, q) == TrainTestSplit(r.X_train, r.Y_train, TestSizePercent, q)
    IN  (IF \E p \in Perms(1..NRows(X)) : 0 \in IndexSet(First(p).X_test)
           THEN {"test"} ELSE {})
        \cup
        UNION {{IF 0 \in IndexSet(Second(First(p), q).X_test) THEN "validation"
                ELSE IF 0 \in IndexSet(Second(First(p), q).X_train) THEN "train"
                ELSE "test" :
                    q \in Perms(1..NRows(First(p).X_train))} :
               p \in {r \in Perms(1..NRows(X)) : r[NRows(X)] = 1}}

\* C16: where a row goes is not determined by the input: before the split
\* of a table that can be split twice, the first row can end in the train,
\* in the validation and in the test partition; the three sizes are
\* determined by the row count alone.
C16_RandomMembershipFixedSizes ==
    /\ pc = "split" /\ Len(boston.data) >= 3 =>
         CanLandIn = {"train", "validation", "test"}
    /\ SplitDone =>
         <<NRows(X_train), NRows(X_val), NRows(X_test)>>
             = SizesOf(Len(boston.data))

C16_Witness ==
    /\ pc = "mkdir"
    /\ Len(boston.data) = MaxRows
    /\ 0 \in IndexSet(X_val)

\* the data_dir cell has run and the clean-up cell has not
DataDirStepDone == Executed("os.path.exists") /\ pc # "cleaned"

\* C17: after the data_dir cell the directory exists; a directory that
\* existed was not made again and kept its entries; running the cell once
\* more, on the directory as it is at any later point of the run, calls no
\* os.makedirs (which would raise) and changes nothing.
C17_DataDirIdempotent ==
    /\ DataDirStepDone =>
         /\ fs.exists
         /\ fs0.exists =>
               /\ ~Executed("os.makedirs")
               /\ \A x \in Foreign :
                     x \in DOMAIN fs.entries /\ fs.entries[x] = fs0.entries[x]
         /\ ~fs0.exists => Count("os.makedirs") = 1
         /\ MakeDirsIfAbsent(fs) = fs
         /\ DataDirOps(fs) = <<"os.path.exists">>
    /\ pc = "to_csv" =>
         /\ fs0.exists => fs = fs0
         /\ MakeDirsIfAbsent(MakeDirsIfAbsent(fs0)) = MakeDirsIfAbsent(fs0)
         /\ fs = MakeDirsIfAbsent(fs0)

C17_Witness ==
    /\ pc = "upload_val"
    /\ fs0.exists
    /\ "notes.txt" \in DOMAIN fs.entries
    /\ "train.csv" \in DOMAIN fs.entries

\* the metric of round k is better than that of every round before it
Improved(run, k) == \A j \in 0..(k - 1) : Rmse(run, k) < Rmse(run, j)

\* at round r the metric has not improved for w consecutive rounds
NotImprovedFor(run, r, w) ==
    r >= w /\ \A k \in (r - w + 1)..r : ~Improved(run, k)

\* the first round, of the 200 at most, at which the metric has not
\* improved for 10 consecutive rounds; 199, the last round, if there is none
StopRound ==
    [run \in Runs |->
        LET S == {r \in 0..199 : NotImprovedFor(run, r, 10)}
        IN  IF S = {} THEN 199
            ELSE CHOOSE r \in S : \A q \in S : r <= q]

\* C18: with num_round = 200 and early_stopping_rounds = 10 a completed
\* training job has run at most 200 rounds and its last round is the first
\* at which the validation metric had not improved for 10 consecutive
\* rounds (the 200th if there is no such round); on the recorded metric it
\* stops at round 44, the last logged round, ten rounds after the best at
\* round 34; and once the fit cell is left the job is no longer running.
C18_EarlyStopping ==
    /\ Executed("set_hyperparameters") =>
         /\ xgb.hyperparameters.num_round = 200
         /\ xgb.hyperparameters.early_stopping_rounds = 10
    /\ xgb.job = "Completed" =>
         /\ xgb.last_round + 1 <= 200
         /\ xgb.last_round = StopRound[xgb.run]
         /\ xgb.best_round <= xgb.last_round
         /\ xgb.run = "recorded" =>
               /\ xgb.last_round = Len(RecordedRmse) - 1
               /\ xgb.last_round = 44
               /\ xgb.best_round = 34
    /\ xgb.job = "InProgress" => pc = "fit_wait" /\ "fit" \in outstanding
    /\ Executed("fit") /\ "fit" \notin outstanding =>
         xgb.job \in {"Completed", "Failed"}

C18_Witness ==
    /\ pc = "deploy"
    /\ xgb.run = "recorded"
    /\ xgb.last_round = 44
    /\ xgb.best_round = 34
====
